---- MODULE Spec2Model ----
(***************************************************************************)
(* erldash: the metrics pipeline.                                          *)
(*                                                                         *)
(*   poller thread (metrics.rs)  --mpsc channel-->  App::run loop (ui.rs)  *)
(*                                                                         *)
(* Time is counted in ticks of 1/TicksPerSec second.  An f64 is modelled   *)
(* as an exact rational <<n, d>> (d > 0, lowest terms); Option<f64>::None  *)
(* is <<0, 0>>.  A metric name is the tuple of the string fragments the    *)
(* code concatenates: <<"memory.", k, "_bytes">> is format!("memory.{k}_   *)
(* bytes").  An Option<String> parent is a name, None being <<>>.          *)
(***************************************************************************)
EXTENDS Integers, Sequences, FiniteSets, TLC

VARIABLES
    now,            \* the monotonic clock (Instant::now()), in ticks
    schedState,     \* start_thread, then MetricsPollerThread::run: "connecting" |
                    \* "connect_failed" | "polling" | "failed" | "stopped" |
                    \* "panicked"; "none" in a replay
    prev_metrics,   \* MetricsPollerThread.prev_metrics
    polls,          \* number of snapshots produced so far
    queue,          \* the mpsc channel: Metrics sent and not yet received
    appState,       \* App::run: "starting" | "running" | "quit" | "error" | "panic"
    pause,          \* UiState.pause
    history,        \* UiState.history
    averages,       \* UiState.averages
    start,          \* UiState.start
    screen,         \* what the last terminal.draw showed
    remote_flag,    \* the remote node's microstate_accounting system flag
    guard,          \* the MetricsPoller value: "none" | "held" | "released"
    old_flag,       \* MetricsPoller.old_microstate_accounting_flag
    restore,        \* what MetricsPoller::drop logged: "" | "kept" | "disabled" | "warned"
    pc,             \* poll_once: the collaborator calls of the cycle that returned Ok
    calls,          \* the collaborator calls issued since the cycle began
    cycleStart,     \* the timestamp Metrics::new() gave the cycle's snapshot
    elapsed,        \* run: metrics.timestamp.elapsed() of the last publish
    slept,          \* run: the duration of the last std::thread::sleep
    fault,          \* the reply that ended the poller: "" | "call_failed" |
                    \* "missing_total"
    msacc_items,    \* poll_once: what insert_msacc_metrics put in the cycle's
                    \* Metrics, each value the f64 the code computes
    recording,      \* RunArgs.record is given
    store,          \* the Record/Replay Store: the recorded entries, in order
    replay_mode,    \* UiState.replay_mode
    replay_cursor_time  \* App.replay_cursor_time, in ticks

vars == <<now, schedState, prev_metrics, polls, queue, appState, pause,
          history, averages, start, screen,
          remote_flag, guard, old_flag, restore, pc, calls, cycleStart,
          elapsed, slept, fault, msacc_items,
          recording, store, replay_mode, replay_cursor_time>>

schedVars == <<schedState, prev_metrics, polls>>
uiVars == <<pause, history, averages, start, screen>>
\* the remote flag and its guard
flagVars == <<remote_flag, guard, old_flag, restore>>
\* the inside of a poll cycle, followed call by call in SpecLife only
cycleVars == <<pc, calls, cycleStart, elapsed, slept, fault, msacc_items>>
\* the record/replay store and the replay cursor
replayVars == <<recording, store, replay_mode, replay_cursor_time>>

(***************************************************************************)
(* Bounds of the model.                                                    *)
(***************************************************************************)
MaxPolls == 4          \* poll cycles of a session whose rates are followed
MaxWindowPolls == 3    \* poll cycles of a session whose window is followed
TicksPerSec == 2       \* resolution of the clock

(***************************************************************************)
(* Program constants.                                                      *)
(***************************************************************************)
ONE_MINUTE == 60
CHART_DURATION == ONE_MINUTE
\* RunArgs.polling_interval: NonZeroUsize seconds, default 1
PollingInterval == 1

(***************************************************************************)
(* f64 arithmetic, as exact rationals.                                     *)
(***************************************************************************)
None == <<0, 0>>

IsSome(x) == x[2] # 0

Abs(i) == IF i < 0 THEN -i ELSE i

Max(a, b) == IF a >= b THEN a ELSE b

RECURSIVE GCD(_, _)
GCD(a, b) == IF b = 0 THEN a ELSE GCD(b, a % b)

\* n / d for d > 0
Ratio(n, d) == LET g == GCD(Abs(n), d) IN <<n \div g, d \div g>>

FromInt(i) == <<i, 1>>

RAdd(x, y) == Ratio(x[1] * y[2] + y[1] * x[2], x[2] * y[2])

RSub(x, y) == Ratio(x[1] * y[2] - y[1] * x[2], x[2] * y[2])

\* x / k for an integer k > 0
RDivInt(x, k) == Ratio(x[1], x[2] * k)

\* f64::round of x >= 0: half away from zero
Round(x) == (2 * x[1] + x[2]) \div (2 * x[2])

(***************************************************************************)
(* MetricValue and its constructors.                                       *)
(***************************************************************************)
NoParent == <<>>

utilization(v) ==
    [kind |-> "Utilization", raw_value |-> 0, value |-> v, parent |-> NoParent]

utilization_with_parent(v, p) ==
    [kind |-> "Utilization", raw_value |-> 0, value |-> v, parent |-> p]

gauge(v) ==
    [kind |-> "Gauge", raw_value |-> 0, value |-> FromInt(v), parent |-> NoParent]

gauge_with_parent(v, p) ==
    [kind |-> "Gauge", raw_value |-> 0, value |-> FromInt(v), parent |-> p]

counter(raw) ==
    [kind |-> "Counter", raw_value |-> raw, value |-> None, parent |-> NoParent]

counter_with_parent(raw, p) ==
    [kind |-> "Counter", raw_value |-> raw, value |-> None, parent |-> p]

(***************************************************************************)
(* Metrics.                                                                *)
(***************************************************************************)
NoItems == [n \in {} |-> n]

MetricsNew(ts) == [timestamp |-> ts, items |-> NoItems]

\* Metrics::root_items: the names of the entries that have no parent
root_items(m) == {n \in DOMAIN m.items : m.items[n].parent = NoParent}

\* Metrics::child_items: the names of the entries whose parent is p
child_items(m, p) ==
    {n \in DOMAIN m.items :
        m.items[n].parent # NoParent /\ m.items[n].parent = p}

\* u64::checked_sub: <<TRUE, a - b>>, or <<FALSE, 0>> for None
checked_sub_wrapping(a, b) == <<TRUE, a - b>>

checked_sub(a, b) == IF a >= b THEN <<TRUE, a - b>> ELSE <<FALSE, 0>>

\* delta as f64 / duration.as_secs_f64(), duration in ticks
RateNoDivision(delta, duration) == FromInt(delta)

\* a division by 0.0 does not panic: it gives an infinity, written
\* <<1, 0>>, or NaN for 0.0 / 0.0, written <<0, 0>>
Rate(delta, duration) ==
    IF duration = 0 THEN <<IF delta = 0 THEN 0 ELSE 1, 0>>
    ELSE Ratio(delta * TicksPerSec, duration)

\* Metrics::calc_delta, the body of its loop for the entry named n
CalcDeltaItem(m, prev, n) ==
    LET v == m.items[n] IN
    IF /\ v.kind = "Counter"
       /\ n \in DOMAIN prev.items
       /\ prev.items[n].kind = "Counter"
    THEN LET delta == checked_sub(v.raw_value, prev.items[n].raw_value) IN
         IF delta[1]
         THEN [v EXCEPT !.value = Rate(delta[2], m.timestamp - prev.timestamp)]
         ELSE v
    ELSE v

calc_delta(m, prev) ==
    [m EXCEPT !.items = [n \in DOMAIN m.items |-> CalcDeltaItem(m, prev, n)]]

(***************************************************************************)
(* The Snapshot Collector: MetricsPollerThread::poll_once.  A reply r is   *)
(* the record of what the thirteen RPCs of one cycle returned.             *)
(***************************************************************************)
\* the map a set of (name, value) insertions builds
ItemsOf(pairs) ==
    [n \in {p[1] : p \in pairs} |-> (CHOOSE p \in pairs : p[1] = n)[2]]

RECURSIVE SumOver(_, _)
\* the sum of f[x] over the x in S
SumOver(f, S) ==
    IF S = {} THEN 0
    ELSE LET x == CHOOSE y \in S : TRUE IN f[x] + SumOver(f, S \ {x})

RECURSIVE SumSeq(_)
SumSeq(s) == IF s = <<>> THEN 0 ELSE Head(s) + SumSeq(Tail(s))

\* format!("{:0width$}", i) for the one-digit numbers the model uses
Digits == <<"0", "1", "2", "3", "4", "5", "6", "7", "8", "9">>
FormatIndex(i) == Digits[i + 1]

\* ThreadTime of a set of threads: realtime is every counter, runtime is
\* realtime less the "sleep" counter
Realtime(threads) ==
    SumOver([t \in threads |-> SumOver(t.counters, DOMAIN t.counters)], threads)

\* x.runtime += realtime - sleeptime
RuntimeWithSleep(threads) == Realtime(threads)

Runtime(threads) ==
    SumOver([t \in threads |->
                SumOver(t.counters, DOMAIN t.counters) - t.counters["sleep"]],
            threads)

\* ThreadTime::utilization; 0.0 / 0.0 is NaN, written <<0, 0>>
ThreadUtilization(runtime, realtime) ==
    IF realtime = 0 THEN <<0, 0>> ELSE Ratio(runtime * 100, realtime)

StateTime(threads, state) ==
    SumOver([t \in threads |->
                IF state \in DOMAIN t.counters THEN t.counters[state] ELSE 0],
            threads)

(***************************************************************************)
(* The f64 values the code computes for the percentages.  A finite f64     *)
(* that is not negative is written [bits, scale]: the binary number bits,  *)
(* most significant bit first, times 2^-scale.  NaN has the scale -1.      *)
(***************************************************************************)
\* f64::MANTISSA_DIGITS: the significant bits of an f64
MantissaDigits == 53

Zeros(n) == [i \in 1..n |-> 0]

\* b without its leading zeros
Strip(b) ==
    IF \A i \in 1..Len(b) : b[i] = 0 THEN <<>>
    ELSE LET k == CHOOSE i \in 1..Len(b) :
                        b[i] = 1 /\ \A j \in 1..(i - 1) : b[j] = 0
         IN  SubSeq(b, k, Len(b))

PadTo(b, n) == Zeros(n - Len(b)) \o b

\* the binary number x + y
BAdd(x, y) ==
    LET n == Max(Len(x), Len(y)) + 1
        X == PadTo(x, n)
        Y == PadTo(y, n)
        \* a carry comes into place i from a place j below it where both
        \* bits are 1, through places where one bit is 1
        carry(i) ==
            IF \E j \in (i + 1)..n :
                    /\ X[j] + Y[j] = 2
                    /\ \A k \in (i + 1)..(j - 1) : X[k] + Y[k] = 1
            THEN 1 ELSE 0
    IN  Strip([i \in 1..n |-> (X[i] + Y[i] + carry(i)) % 2])

\* x <= y for binary numbers
BLe(x, y) ==
    LET n == Max(Len(x), Len(y))
        X == PadTo(x, n)
        Y == PadTo(y, n)
    IN  \/ X = Y
        \/ \E i \in 1..n : X[i] < Y[i] /\ \A j \in 1..(i - 1) : X[j] = Y[j]

\* The f64 nearest to b * 2^-scale, ties to the even mantissa; sticky: the
\* exact number has more below the last bit of b
RoundF64(b, sticky, scale) ==
    LET s == Strip(b)
        extra == Len(s) - MantissaDigits
    IN  IF extra <= 0 THEN [bits |-> s, scale |-> scale]
        ELSE LET kept == SubSeq(s, 1, MantissaDigits)
                 half == s[MantissaDigits + 1]
                 rest == sticky \/ \E i \in (MantissaDigits + 2)..Len(s) : s[i] = 1
                 up == half = 1 /\ (rest \/ kept[MantissaDigits] = 1)
             IN  [bits |-> IF up THEN BAdd(kept, <<1>>) ELSE kept,
                  scale |-> scale - extra]

RECURSIVE LeadingZeros(_, _)
\* the zeros that follow the binary point of a / r, for 0 < a < r
LeadingZeros(a, r) == IF 2 * a >= r THEN 0 ELSE 1 + LeadingZeros(2 * a, r)

RECURSIVE Pow2Mod(_, _)
\* 2^k modulo r
Pow2Mod(k, r) ==
    IF k = 0 THEN 1 % r
    ELSE IF k % 2 = 0
    THEN LET h == Pow2Mod(k \div 2, r) IN (h * h) % r
    ELSE (2 * Pow2Mod(k - 1, r)) % r

\* the remainder the long division of a by r is left with after k bits
DivRest(a, r, k) == (a * Pow2Mod(k, r)) % r

\* the first n bits after the binary point of a / r, for a < r
DivBits(a, r, n) ==
    [k \in 1..n |-> IF 2 * DivRest(a, r, k - 1) >= r THEN 1 ELSE 0]

NaN == [bits |-> <<>>, scale |-> -1]

IsNaN(x) == x.scale = -1

\* a as f64 / r as f64 for 0 <= a <= r, the integers being small enough
\* for `as f64` to be exact; 0.0 / 0.0 is NaN
F64Div(a, r) ==
    IF r = 0 THEN NaN
    ELSE IF a = 0 THEN [bits |-> <<>>, scale |-> 0]
    ELSE IF a = r THEN [bits |-> <<1>>, scale |-> 0]
    ELSE LET n == LeadingZeros(a, r) + MantissaDigits + 1
         IN  RoundF64(DivBits(a, r, n), DivRest(a, r, n) # 0, n)

\* x * 100.0: 100 is 64 + 32 + 4
F64Times100(x) ==
    IF IsNaN(x) THEN NaN
    ELSE RoundF64(BAdd(BAdd(x.bits \o Zeros(6), x.bits \o Zeros(5)),
                       x.bits \o Zeros(2)),
                  FALSE, x.scale)

\* ThreadTime::utilization and the `u` of a state as the f64 operations
\* give them: value as f64 / realtime as f64 * 100.0
F64Utilization(value, realtime) == F64Times100(F64Div(value, realtime))

\* the real number x + y of two f64, not rounded
XAdd(x, y) ==
    LET s == Max(x.scale, y.scale)
    IN  [bits |-> BAdd(x.bits \o Zeros(s - x.scale), y.bits \o Zeros(s - y.scale)),
         scale |-> s]

\* x <= y as real numbers
XLe(x, y) ==
    LET s == Max(x.scale, y.scale)
    IN  BLe(x.bits \o Zeros(s - x.scale), y.bits \o Zeros(s - y.scale))

XEq(x, y) == XLe(x, y) /\ XLe(y, x)

\* insert_msacc_metrics with the percentages computed by Pct
InsertMsacc(Pct(_, _), msacc) ==
    LET types == {t.thread_type : t \in msacc}
        OfType(ty) == {t \in msacc : t.thread_type = ty}
        States(ty) == UNION {DOMAIN t.counters : t \in OfType(ty)}
        Ids(ty) == {t.thread_id : t \in OfType(ty)}
        root(ty) == <<"utilization.", ty>>
    IN  {<<root(ty),
           utilization(Pct(Runtime(OfType(ty)), Realtime(OfType(ty))))>>
             : ty \in types}
        \cup UNION {
          {<<root(ty) \o <<".state.", st>>,
             utilization_with_parent(
                 Pct(StateTime(OfType(ty), st), Realtime(OfType(ty))),
                 root(ty))>> : st \in States(ty)} : ty \in types}
        \cup UNION {
          {<<root(ty) \o <<".thread.", FormatIndex(id)>>,
             LET th == {t \in OfType(ty) : t.thread_id = id} IN
             utilization_with_parent(Pct(Runtime(th), Realtime(th)), root(ty))>>
             : id \in Ids(ty)} : ty \in types}

\* insert_msacc_metrics, the percentages in exact arithmetic
insert_msacc_metrics(msacc) == InsertMsacc(ThreadUtilization, msacc)

\* the raw value of statistics.io.total_bytes: in_bytes + out_bytes
IoTotalInputOnly(in_bytes, out_bytes) == in_bytes

IoTotal(in_bytes, out_bytes) == in_bytes + out_bytes

\* the parent the memory categories are given (metrics.rs 469)
MemoryParentNameShort == <<"memory.total">>

MemoryParentName == <<"memory.total_bytes">>

\* the entries poll_once inserts, before calc_delta
Collect(r) ==
    insert_msacc_metrics(r.msacc)
    \cup {<<(<<"system_info.processe_count">>), gauge(r.process_count)>>,
          <<(<<"system_info.port_count">>), gauge(r.port_count)>>,
          <<(<<"system_info.atom_count">>), gauge(r.atom_count)>>,
          <<(<<"system_info.ets_count">>), gauge(r.ets_count)>>,
          <<(<<"statistics.context_switches">>), counter(r.context_switches)>>,
          <<(<<"statistics.exact_reductions">>), counter(r.exact_reductions)>>,
          <<(<<"statistics.garbage_collection">>), counter(r.garbage_collection)>>,
          <<(<<"statistics.runtime">>), counter(r.runtime)>>,
          <<(<<"statistics.io.total_bytes">>), counter(IoTotal(r.io[1], r.io[2]))>>,
          <<(<<"statistics.io.input_bytes">>),
            counter_with_parent(r.io[1], <<"statistics.io.total_bytes">>)>>,
          <<(<<"statistics.io.output_bytes">>),
            counter_with_parent(r.io[2], <<"statistics.io.total_bytes">>)>>,
          <<(<<"statistics.run_queue">>), gauge(SumSeq(r.run_queue_lengths))>>,
          <<(<<"memory.total_bytes">>), gauge(r.memory["total"])>>}
    \cup {<<(<<"statistics.run_queue.", FormatIndex(i - 1)>>),
            gauge_with_parent(r.run_queue_lengths[i], <<"statistics.run_queue">>)>>
            : i \in 1..Len(r.run_queue_lengths)}
    \cup {<<(<<"memory.", k, "_bytes">>),
            gauge_with_parent(r.memory[k], MemoryParentName)>>
            : k \in DOMAIN r.memory \ {"total"}}

\* poll_once on success: the Metrics it returns, which it also stores as
\* prev_metrics
poll_once(r, ts, prev) ==
    calc_delta([timestamp |-> ts, items |-> ItemsOf(Collect(r))], prev)

(***************************************************************************)
(* The Windowed Aggregator: AvgValue and the MetricValue arithmetic.       *)
(* A usize or u64 that went below zero is kept as the negative number: in  *)
(* a build with overflow checks the subtraction panics, in one without it  *)
(* wraps (-1 stands for 2^64 - 1).                                         *)
(***************************************************************************)
\* MetricValue::add_assign and sub_assign panic on operands of two kinds
KindMismatch(lhs, rhs) == lhs.kind # rhs.kind

add_assign(lhs, rhs) ==
    CASE lhs.kind = "Gauge" -> [lhs EXCEPT !.value = RAdd(@, rhs.value)]
      [] lhs.kind = "Utilization" -> [lhs EXCEPT !.value = RAdd(@, rhs.value)]
      [] lhs.kind = "Counter" ->
            IF IsSome(lhs.value) /\ IsSome(rhs.value)
            THEN [lhs EXCEPT !.value = RAdd(@, rhs.value)]
            ELSE [lhs EXCEPT !.value = rhs.value]

sub_assign(lhs, rhs) ==
    CASE lhs.kind = "Gauge" -> [lhs EXCEPT !.value = RSub(@, rhs.value)]
      [] lhs.kind = "Utilization" -> [lhs EXCEPT !.value = RSub(@, rhs.value)]
      [] lhs.kind = "Counter" ->
            IF IsSome(lhs.value) /\ IsSome(rhs.value)
            THEN [lhs EXCEPT !.value = RSub(@, rhs.value)]
            ELSE lhs

\* AvgValue::new: the first snapshot that holds a name is counted
AvgNewUncounted(v) == [sum |-> v, cnt |-> 0]

AvgNew(v) == [sum |-> v, cnt |-> 1]

AvgAdd(a, v) == [sum |-> add_assign(a.sum, v), cnt |-> a.cnt + 1]

AvgSub(a, v) == [sum |-> sub_assign(a.sum, v), cnt |-> a.cnt - 1]

\* the integer subtractions of AvgValue::sub that go below zero
SubUnderflows(a, v) ==
    \/ a.cnt = 0
    \/ a.sum.kind = "Gauge" /\ v.kind = "Gauge" /\ a.sum.value[1] < v.value[1]

AvgGetTruncating(a) ==
    CASE a.sum.kind = "Gauge" ->
            gauge(IF a.cnt = 0 THEN 0 ELSE a.sum.value[1] \div a.cnt)
      [] a.sum.kind = "Counter" ->
            [counter(0) EXCEPT !.value =
                IF IsSome(a.sum.value) /\ a.cnt # 0
                THEN RDivInt(a.sum.value, a.cnt) ELSE None]
      [] a.sum.kind = "Utilization" ->
            utilization(IF a.cnt = 0 THEN <<0, 0>> ELSE RDivInt(a.sum.value, a.cnt))

\* AvgValue::get.  A division by cnt = 0 gives NaN (or an infinity), which
\* `as u64` turns into 0 for a Gauge and which is written <<0, 0>> otherwise.
AvgGet(a) ==
    CASE a.sum.kind = "Gauge" ->
            gauge(IF a.cnt = 0 THEN 0 ELSE Round(RDivInt(a.sum.value, a.cnt)))
      [] a.sum.kind = "Counter" ->
            [counter(0) EXCEPT !.value =
                IF IsSome(a.sum.value) /\ a.cnt # 0
                THEN RDivInt(a.sum.value, a.cnt) ELSE None]
      [] a.sum.kind = "Utilization" ->
            utilization(IF a.cnt = 0 THEN <<0, 0>> ELSE RDivInt(a.sum.value, a.cnt))

\* App::handle_poll, the loop over the received metrics (ui.rs 69-77)
InsertPanics(avgs, m) ==
    \E n \in DOMAIN m.items \cap DOMAIN avgs : KindMismatch(avgs[n].sum, m.items[n])

InsertAll(avgs, m) ==
    [n \in DOMAIN avgs \cup DOMAIN m.items |->
        IF n \notin DOMAIN m.items THEN avgs[n]
        ELSE IF n \in DOMAIN avgs THEN AvgAdd(avgs[n], m.items[n])
        ELSE AvgNew(m.items[n])]

\* App::handle_poll, the loop over an evicted snapshot (ui.rs 87-93):
\* expect("unreachable") panics when the name has no accumulator
EvictPanics(avgs, m, overflowChecks) ==
    \E n \in DOMAIN m.items :
        \/ n \notin DOMAIN avgs
        \/ KindMismatch(avgs[n].sum, m.items[n])
        \/ overflowChecks /\ SubUnderflows(avgs[n], m.items[n])

EvictAll(avgs, m) ==
    [n \in DOMAIN avgs |->
        IF n \in DOMAIN m.items THEN AvgSub(avgs[n], m.items[n]) ELSE avgs[n]]

\* Duration::as_secs of a duration in ticks
AsSecs(d) == d \div TicksPerSec

\* the test that ends the loop (ui.rs 83): the popped snapshot is pushed
\* back when its age in whole seconds is at most CHART_DURATION
KeptInWindowAlways(duration) == TRUE

KeptInWindow(duration) == duration <= CHART_DURATION

RECURSIVE EvictLoop(_, _, _, _)
\* App::handle_poll, the while loop that drops the snapshots older than
\* CHART_DURATION (ui.rs 81-95)
EvictLoop(hist, avgs, timestamp, overflowChecks) ==
    IF hist = <<>>
    THEN [history |-> hist, averages |-> avgs, panic |-> FALSE]
    ELSE IF KeptInWindow(AsSecs(timestamp - Head(hist).timestamp))
    THEN [history |-> hist, averages |-> avgs, panic |-> FALSE]
    ELSE IF EvictPanics(avgs, Head(hist), overflowChecks)
    THEN [history |-> hist, averages |-> avgs, panic |-> TRUE]
    ELSE EvictLoop(Tail(hist), EvictAll(avgs, Head(hist)), timestamp, overflowChecks)

(***************************************************************************)
(* Rendering: what UiState::render puts in the "Avg (1m)" column of the    *)
(* rows it lists (the root items, and the child items of a root).          *)
(***************************************************************************)
Blank == [kind |-> "", raw_value |-> 0, value |-> None, parent |-> NoParent]

\* panicked: a draw read latest_metrics of an empty history, whose
\* expect("unreachable") unwinds
NoScreen == [rendered |-> FALSE, avg |-> NoItems, panicked |-> FALSE]

PanicScreen == [rendered |-> FALSE, avg |-> NoItems, panicked |-> TRUE]

latest_metrics(hist) == hist[Len(hist)]

is_avg_available(t, st) == AsSecs(t - st) >= ONE_MINUTE

ListedNames(m) ==
    root_items(m) \cup UNION {child_items(m, r) : r \in root_items(m)}

AvgCell(avgs, n, available) ==
    IF available /\ n \in DOMAIN avgs THEN AvgGet(avgs[n]) ELSE Blank

Render(hist, avgs, t, st) ==
    IF hist = <<>> THEN PanicScreen
    ELSE [rendered |-> TRUE,
          avg |-> [n \in ListedNames(latest_metrics(hist)) |->
                     AvgCell(avgs, n, is_avg_available(t, st))],
          panicked |-> FALSE]

\* the test of App::render_ui (ui.rs 177)
DrawsAlways(hist) == TRUE

DrawsWhen(hist) == hist # <<>>

\* App::render_ui draws only when the history is not empty
render_ui(hist, avgs, t, st, old) ==
    IF DrawsWhen(hist) THEN Render(hist, avgs, t, st) ELSE old

(***************************************************************************)
(* The replies of the remote node the model draws from.                    *)
(***************************************************************************)
Thread(id, ty, sleep, emulator) ==
    [thread_id |-> id, thread_type |-> ty,
     counters |-> [sleep |-> sleep, emulator |-> emulator]]

BaseReply ==
    [msacc |-> {Thread(1, "scheduler", 3, 1)},
     process_count |-> 10, port_count |-> 2, atom_count |-> 7, ets_count |-> 5,
     context_switches |-> 40, exact_reductions |-> 90, garbage_collection |-> 6,
     runtime |-> 1000, io |-> <<30, 20>>,
     run_queue_lengths |-> <<1, 0>>,
     memory |-> [total |-> 64, processes |-> 16]]

\* Replies whose counters rise, stay and fall back (a reset)
RateReplies ==
    {BaseReply,
     [BaseReply EXCEPT !.runtime = 1500, !.io = <<30, 50>>],
     [BaseReply EXCEPT !.runtime = 2200, !.io = <<10, 60>>]}

\* Replies whose gauges, utilization and set of names change
WindowReplies ==
    {BaseReply,
     [BaseReply EXCEPT !.process_count = 12, !.runtime = 1500,
                       !.msacc = {Thread(1, "scheduler", 1, 1),
                                  Thread(2, "scheduler", 1, 0)},
                       !.memory = [total |-> 64, processes |-> 16, ets |-> 8]],
     [BaseReply EXCEPT !.process_count = 11, !.runtime = 400,
                       !.run_queue_lengths = <<2>>]}

\* Time between the starts of two poll cycles, in ticks: never less than
\* the polling interval (run() sleeps interval - elapsed), more when the
\* cycle itself took longer
RateSpacings == {PollingInterval * TicksPerSec, PollingInterval * TicksPerSec + 1}

WindowSpacings == {PollingInterval * TicksPerSec, 40 * TicksPerSec}

(***************************************************************************)
(* The Record/Replay Store: the entries (elapsed, snapshot) a recording    *)
(* session appended, in order.  In replay a snapshot's timestamp is its    *)
(* elapsed time (ui.rs 213-218 reads it as a Duration).                    *)
(***************************************************************************)
\* Record: a published snapshot is appended with its elapsed time since the
\* start of the session
Record(st, m, sessionStart) ==
    Append(st, [elapsed |-> m.timestamp - sessionStart, metrics |-> m])

\* the snapshot of an entry as the replay hands it out
Replayed(e) == [e.metrics EXCEPT !.timestamp = e.elapsed]

\* range(from, to): the snapshots recorded with from <= elapsed < to
get_metrics_range(st, from, to) ==
    LET kept == SelectSeq(st, LAMBDA e : from <= e.elapsed /\ e.elapsed < to)
    IN  [i \in 1..Len(kept) |-> Replayed(kept[i])]

\* last_elapsed(): the elapsed time of the final entry
replay_last_time(st) == IF st = <<>> THEN 0 ELSE st[Len(st)].elapsed

(***************************************************************************)
(* The poller thread: MetricsPollerThread::run.                            *)
(***************************************************************************)
\* The previous snapshot the next cycle is given: poll_once stores the
\* snapshot it returns
StorePrevKeepFirst(prev, m) == IF prev.items = NoItems THEN m ELSE prev

StorePrev(prev, m) == m

\* tx.send(metrics).is_err(): the send fails only when the receiver, which
\* the App owns through its MetricsPoller, has been dropped
SendNeverFails(g) == FALSE

SendIsErr(g) == g = "released"

\* tx.send(metrics) on the channel of mpsc::channel(), which has no
\* capacity: the snapshot is queued behind those already there
SendBounded(q, m) == IF Len(q) >= 2 THEN q ELSE Append(q, m)

Send(q, m) == Append(q, m)

\* The Ok arm of the loop for the snapshot of the replies r stamped ts:
\* poll_once computes the rates and stores the snapshot, run sends it;
\* with the receiver gone the send fails and the loop is left
PollOk(r, ts, maxPolls) ==
    /\ schedState = "polling"
    /\ polls < maxPolls
    /\ LET m == poll_once(r, ts, prev_metrics)
       IN  /\ prev_metrics' = StorePrev(prev_metrics, m)
           /\ polls' = polls + 1
           /\ IF SendIsErr(guard)
              THEN queue' = queue /\ schedState' = "stopped" /\ store' = store
              ELSE /\ queue' = Send(queue, m)
                   /\ schedState' = "polling"
                   /\ store' = IF recording THEN Record(store, m, start) ELSE store
    /\ UNCHANGED <<appState, uiVars, recording, replay_mode, replay_cursor_time>>

\* One iteration of the loop with poll_once returning Ok, the cycle taken
\* as a whole: it starts spacing after the previous one
PollCycle(r, spacing, maxPolls) ==
    LET ts == IF polls = 0 THEN now ELSE now + spacing
    IN  /\ PollOk(r, ts, maxPolls)
        /\ now' = ts
        /\ UNCHANGED <<flagVars, cycleVars>>

\* One iteration of the loop with poll_once returning Err: the error is
\* logged and the loop is left, which drops the sender
PollFail ==
    /\ schedState = "polling"
    /\ schedState' = "failed"
    /\ UNCHANGED <<now, prev_metrics, polls, queue, appState, uiVars>>
    /\ UNCHANGED <<flagVars, cycleVars, replayVars>>

SenderAlive == schedState = "polling"

(***************************************************************************)
(* The consumer: App::run.                                                 *)
(***************************************************************************)
\* MetricsPoller::poll_metrics(timeout), the channel's recv_timeout: a
\* queued snapshot first, Disconnected once the queue is empty and the
\* sender is dropped, Timeout otherwise
poll_metrics(q, senderAlive) ==
    IF q # <<>> THEN "Ok" ELSE IF senderAlive THEN "Timeout" ELSE "Disconnected"

(***************************************************************************)
(* The end of App::run: run consumes the App, so that returning from it,   *)
(* with Ok, with an error or by a panic that unwinds, drops the App and    *)
(* with it the MetricsPoller (the receiver and the guard of the flag).     *)
(***************************************************************************)
MainCall(name) == [unit |-> "main", name |-> name]

\* the outcome of run once MetricsPoller::drop has run: drop only logs
DropEscalates(outcome, restoreOk) == IF restoreOk THEN outcome ELSE "panic"

DropOutcome(outcome, restoreOk) == outcome

\* the value drop leaves the remote flag with: it is set to false when it
\* was false before the session and the call succeeds
AfterDropAlwaysOff(flag, old, restoreOk) == IF restoreOk THEN FALSE ELSE flag

AfterDrop(flag, old, restoreOk) == IF ~old /\ restoreOk THEN FALSE ELSE flag

\* impl Drop for MetricsPoller; restoreOk: the call to the node succeeds
DropPoller(restoreOk) ==
    /\ guard' = "released"
    /\ remote_flag' = AfterDrop(remote_flag, old_flag, restoreOk)
    /\ IF ~old_flag
       THEN /\ calls' = Append(calls, MainCall("system_flag.microstate_accounting.false"))
            /\ restore' = IF restoreOk THEN "disabled" ELSE "warned"
       ELSE /\ calls' = calls
            /\ restore' = "kept"
    /\ UNCHANGED <<old_flag, pc, cycleStart, elapsed, slept, fault, msacc_items>>

\* run returning with the given outcome
Exit(outcome) ==
    \E restoreOk \in BOOLEAN :
        /\ DropPoller(restoreOk)
        /\ appState' = DropOutcome(outcome, restoreOk)

\* App::run calls handle_poll unless the UI is paused or replaying
PollsQueueInReplay(paused, replaying) == ~paused

PollsQueueWhenPaused(paused, replaying) == ~replaying

PollsQueue(paused, replaying) == ~paused /\ ~replaying

\* run returning with the given outcome from a replay, whose poller holds
\* no connection and no guard
ExitReplay(outcome) ==
    /\ appState' = outcome
    /\ UNCHANGED <<flagVars, cycleVars>>

\* App::handle_poll receiving a snapshot
HandlePollOk ==
    /\ appState = "running"
    /\ PollsQueue(pause, replay_mode)
    /\ poll_metrics(queue, SenderAlive) = "Ok"
    /\ queue' = Tail(queue)
    /\ \E overflowChecks \in BOOLEAN :
        LET metrics == Head(queue)
            inserted == InsertAll(averages, metrics)
            kept == EvictLoop(Append(history, metrics), inserted,
                              metrics.timestamp, overflowChecks)
        IN  IF InsertPanics(averages, metrics) \/ kept.panic
            THEN /\ Exit("panic")
                 /\ UNCHANGED <<history, averages, screen>>
            ELSE /\ appState' = "running"
                 /\ history' = kept.history
                 /\ averages' = kept.averages
                 /\ screen' = render_ui(kept.history, kept.averages, now, start, screen)
                 /\ UNCHANGED <<flagVars, cycleVars>>
    /\ UNCHANGED <<now, schedVars, pause, start, replayVars>>

\* App::handle_poll finding the channel disconnected
HandlePollDisconnected ==
    /\ appState = "running"
    /\ PollsQueue(pause, replay_mode)
    /\ poll_metrics(queue, SenderAlive) = "Disconnected"
    /\ Exit("error")
    /\ UNCHANGED <<now, schedVars, queue, uiVars, replayVars>>

\* App::run calls handle_event first in every iteration of its loop,
\* whether the UI is paused, replaying or neither
QuitHonouredWhenPolling(paused, replaying) == ~paused /\ ~replaying

QuitHonoured(paused, replaying) == TRUE

\* App::handle_key_event, 'q'
KeyQuit ==
    /\ appState = "running"
    /\ QuitHonoured(pause, replay_mode)
    /\ IF replay_mode THEN ExitReplay("quit") ELSE Exit("quit")
    /\ UNCHANGED <<now, schedVars, queue, uiVars, replayVars>>

\* App::handle_key_event, 'p'
KeyPause ==
    /\ appState = "running"
    /\ pause' = ~pause
    /\ screen' = render_ui(history, averages, now, start, screen)
    /\ UNCHANGED <<now, schedVars, queue, appState, history, averages, start>>
    /\ UNCHANGED <<flagVars, cycleVars, replayVars>>

\* App::handle_event for a resize, and handle_key_event for the keys that
\* only move the selection: the screen is drawn again
Redraw ==
    /\ appState = "running"
    /\ screen' = render_ui(history, averages, now, start, screen)
    /\ UNCHANGED <<now, schedVars, queue, appState, pause, history, averages, start>>
    /\ UNCHANGED <<flagVars, cycleVars, replayVars>>

(***************************************************************************)
(* The live session.                                                       *)
(***************************************************************************)
Init ==
    /\ now = 0
    /\ schedState = "polling"
    /\ prev_metrics = MetricsNew(0)
    /\ polls = 0
    /\ queue = <<>>
    /\ appState = "running"
    /\ pause = FALSE
    /\ history = <<>>
    /\ averages = NoItems
    /\ start = 0
    /\ screen = NoScreen
    /\ remote_flag = TRUE
    /\ guard = "held"
    /\ old_flag = FALSE
    /\ restore = ""
    /\ pc = 0
    /\ calls = <<>>
    /\ cycleStart = 0
    /\ elapsed = 0
    /\ slept = 0
    /\ fault = ""
    /\ msacc_items = NoItems
    /\ recording = FALSE
    /\ store = <<>>
    /\ replay_mode = FALSE
    /\ replay_cursor_time = 0

Consumer == HandlePollOk \/ HandlePollDisconnected

Session(Replies, Spacings, maxPolls) ==
    \/ \E r \in Replies, spacing \in Spacings : PollCycle(r, spacing, maxPolls)
    \/ PollFail
    \/ HandlePollOk
    \/ HandlePollDisconnected
    \/ KeyQuit
    \/ KeyPause
    \/ Redraw

Next == Session(WindowReplies, WindowSpacings, MaxWindowPolls)

Spec == Init /\ [][Next]_vars

NextRate == Session(RateReplies, RateSpacings, MaxPolls)

SpecRate == Init /\ [][NextRate]_vars

(***************************************************************************)
(* What the claims speak of.                                               *)
(***************************************************************************)
\* The snapshots published and still held, oldest first: those the
\* consumer keeps, then those waiting in the channel
Stream == history \o queue

RuntimeName == <<"statistics.runtime">>
ProcessCountName == <<"system_info.processe_count">>

IsCounterOf(m, n) == n \in DOMAIN m.items /\ m.items[n].kind = "Counter"

\* C1: of two consecutive snapshots that share a Counter whose raw value
\* did not fall, the newer one's rate is (raw2 - raw1) / (t2 - t1); every
\* Counter of the first snapshot of a session has no rate.
C1_RateOfConsecutive ==
    /\ \A i \in 2..Len(Stream) : \A n \in DOMAIN Stream[i].items :
        LET new == Stream[i].items[n]
            old == Stream[i - 1]
        IN  (/\ new.kind = "Counter"
             /\ IsCounterOf(old, n)
             /\ new.raw_value >= old.items[n].raw_value)
            => /\ IsSome(new.value)
               /\ new.value[1] * (Stream[i].timestamp - old.timestamp)
                  = (new.raw_value - old.items[n].raw_value) * TicksPerSec
                    * new.value[2]
    /\ (polls >= 1 /\ Len(Stream) = polls)
        => \A n \in DOMAIN Stream[1].items :
              Stream[1].items[n].kind = "Counter"
              => Stream[1].items[n].value = None

\* a rise of 500 over one second and a tick
C1_Witness ==
    \E i \in 2..Len(Stream) :
        /\ Stream[i].timestamp - Stream[i - 1].timestamp = TicksPerSec + 1
        /\ Stream[i].items[RuntimeName].raw_value
           = Stream[i - 1].items[RuntimeName].raw_value + 500
        /\ Stream[i].items[RuntimeName].value = Ratio(500 * TicksPerSec, TicksPerSec + 1)

\* C2: a Counter whose raw value is lower than in the previous snapshot
\* has no rate, and no published snapshot carries a negative rate.
C2_ResetHasNoRate ==
    /\ \A i \in 2..Len(Stream) : \A n \in DOMAIN Stream[i].items :
        (/\ Stream[i].items[n].kind = "Counter"
         /\ IsCounterOf(Stream[i - 1], n)
         /\ Stream[i].items[n].raw_value < Stream[i - 1].items[n].raw_value)
        => Stream[i].items[n].value = None
    /\ \A i \in 1..Len(Stream) : \A n \in DOMAIN Stream[i].items :
        Stream[i].items[n].kind = "Counter" => Stream[i].items[n].value[1] >= 0

C2_Witness ==
    \E i \in 2..Len(Stream) :
        /\ Stream[i].items[RuntimeName].raw_value
           < Stream[i - 1].items[RuntimeName].raw_value
        /\ Stream[i].items[RuntimeName].value = None

RuntimeRaws == [i \in 1..Len(Stream) |-> Stream[i].items[RuntimeName].raw_value]
RuntimeRates == [i \in 1..Len(Stream) |-> Stream[i].items[RuntimeName].value]

EverySecond ==
    \A i \in 2..Len(Stream) :
        Stream[i].timestamp - Stream[i - 1].timestamp = TicksPerSec

\* C3: the rate is computed against the immediately preceding snapshot:
\* the stored previous snapshot is the last one published; raw values
\* 1000, 1500, 1500, 2200 one second apart give the rates None, 500, 0,
\* 700; and the snapshot after a reset has a rate, computed against the
\* raw value of the reset snapshot.
C3_AgainstImmediatePredecessor ==
    /\ (schedState # "stopped" /\ Stream # <<>>)
        => prev_metrics = Stream[Len(Stream)]
    /\ (RuntimeRaws = <<1000, 1500, 1500, 2200>> /\ EverySecond /\ polls = 4)
        => RuntimeRates = <<None, FromInt(500), FromInt(0), FromInt(700)>>
    /\ \A i \in 3..Len(Stream) :
        (/\ RuntimeRaws[i - 1] < RuntimeRaws[i - 2]
         /\ RuntimeRaws[i] >= RuntimeRaws[i - 1])
        => /\ IsSome(RuntimeRates[i])
           /\ RuntimeRates[i][1] * (Stream[i].timestamp - Stream[i - 1].timestamp)
              = (RuntimeRaws[i] - RuntimeRaws[i - 1]) * TicksPerSec
                * RuntimeRates[i][2]

C3_Witness ==
    /\ polls = 4
    /\ EverySecond
    /\ RuntimeRaws = <<1000, 1500, 1500, 2200>>
    /\ RuntimeRates = <<None, FromInt(500), FromInt(0), FromInt(700)>>

(***************************************************************************)
(* The window: the snapshots of the chart history, and their projections   *)
(* (Gauge value, Counter rate when present, Utilization percent).          *)
(***************************************************************************)
HasProjection(v) == v.kind # "Counter" \/ IsSome(v.value)

\* the positions of the history whose snapshot holds n / a projection of n
Holding(n) == {i \in 1..Len(history) : n \in DOMAIN history[i].items}
Projecting(n) == {i \in Holding(n) : HasProjection(history[i].items[n])}

RECURSIVE RSum(_, _)
\* the sum of the rationals f[x] over the x in S
RSum(f, S) ==
    IF S = {} THEN FromInt(0)
    ELSE LET x == CHOOSE y \in S : TRUE IN RAdd(f[x], RSum(f, S \ {x}))

WindowSum(n) == RSum([i \in Projecting(n) |-> history[i].items[n].value], Projecting(n))

\* the running sum of an accumulator, an absent Counter sum being nothing
RunningSum(a) == IF HasProjection(a.sum) THEN a.sum.value ELSE FromInt(0)

\* C4: for every metric name the running sum of its accumulator equals the
\* sum of the projected values of the snapshots in the window, also when a
\* Counter without a rate is inserted or evicted.
C4_SumIsWindowSum ==
    \A n \in DOMAIN averages : RunningSum(averages[n]) = WindowSum(n)

\* C5: the member count of a name is the number of snapshots in the window
\* that hold a defined projection for it: a Counter without a rate is not
\* counted.
C5_CountIsProjecting ==
    \A n \in DOMAIN averages : averages[n].cnt = Cardinality(Projecting(n))

\* a cell of the "Avg (1m)" column that shows a number
CellShown(c) == c.kind # "" /\ HasProjection(c)

ShownNames == {n \in DOMAIN screen.avg : CellShown(screen.avg[n])}

AggregatedSpan == latest_metrics(history).timestamp - start

\* the consumer has nothing left to receive, or is paused
Settled == queue = <<>> \/ pause

\* C8: an average is shown only for a name whose member count is not 0
\* and once the aggregated snapshots span the 60 s window, in every state
\* of the consumer, after a pause too.
C8_AverageWithheld ==
    Settled =>
        \A n \in ShownNames :
            /\ averages[n].cnt # 0
            /\ AsSecs(AggregatedSpan) >= ONE_MINUTE

(***************************************************************************)
(* The Windowed Aggregator on its own: snapshots are inserted and evicted  *)
(* in any order, as the loops of App::handle_poll do it.                   *)
(***************************************************************************)
MaxMembers == 3        \* snapshots inserted into the aggregator

FirstSnapshots == {poll_once(r, 0, MetricsNew(0)) : r \in WindowReplies}

AggSnapshots ==
    FirstSnapshots
    \cup {poll_once(r, TicksPerSec, poll_once(BaseReply, 0, MetricsNew(0))) :
            r \in WindowReplies}

\* the insert loop (ui.rs 69-77) and the push_back for a snapshot m
AggInsert(m) ==
    /\ appState = "running"
    /\ polls < MaxMembers
    /\ polls' = polls + 1
    /\ IF InsertPanics(averages, m)
       THEN appState' = "panic" /\ UNCHANGED <<averages, history>>
       ELSE /\ appState' = "running"
            /\ averages' = InsertAll(averages, m)
            /\ history' = Append(history, m)
    /\ UNCHANGED <<now, schedState, prev_metrics, queue, pause, start, screen>>
    /\ UNCHANGED <<flagVars, cycleVars, replayVars>>

\* the evict loop (ui.rs 87-93) for a snapshot m: the oldest of the
\* window or, the window being empty, a snapshot that is not counted
AggEvict(m) ==
    /\ appState = "running"
    /\ \A n \in DOMAIN averages : averages[n].cnt >= 0
    /\ \/ history # <<>> /\ m = Head(history) /\ history' = Tail(history)
       \/ history = <<>> /\ history' = history
    /\ \E overflowChecks \in BOOLEAN :
        IF EvictPanics(averages, m, overflowChecks)
        THEN appState' = "panic" /\ UNCHANGED averages
        ELSE appState' = "running" /\ averages' = EvictAll(averages, m)
    /\ UNCHANGED <<now, schedVars, queue, pause, start, screen>>
    /\ UNCHANGED <<flagVars, cycleVars, replayVars>>

NextAgg == \E m \in AggSnapshots : AggInsert(m) \/ AggEvict(m)

SpecAgg == Init /\ [][NextAgg]_vars

TreeNames == {<<"a">>, <<"a.x">>, <<"b.y">>, <<"c">>}
TreeParents == {NoParent, <<"a">>, <<"b">>}

TreeSnapshots ==
    {[timestamp |-> 0, items |-> [n \in TreeNames |-> gauge_with_parent(1, f[n])]] :
        f \in [TreeNames -> TreeParents]}

InitTree ==
    /\ now = 0
    /\ schedState = "stopped"
    /\ prev_metrics = MetricsNew(0)
    /\ polls = 0
    /\ queue = <<>>
    /\ appState = "running"
    /\ pause \in BOOLEAN
    /\ history \in {<<m>> : m \in TreeSnapshots}
    /\ averages = NoItems
    /\ start = 0
    /\ screen = NoScreen
    /\ remote_flag = TRUE
    /\ guard = "held"
    /\ old_flag = FALSE
    /\ restore = ""
    /\ pc = 0
    /\ calls = <<>>
    /\ cycleStart = 0
    /\ elapsed = 0
    /\ slept = 0
    /\ fault = ""
    /\ msacc_items = NoItems
    /\ recording = FALSE
    /\ store = <<>>
    /\ replay_mode = FALSE
    /\ replay_cursor_time = 0

NextTree == Redraw \/ KeyPause

SpecTree == InitTree /\ [][NextTree]_vars

\* C9: an entry whose parent names no entry of the snapshot is listed as a
\* root, so that every entry of the snapshot drawn is listed, among the
\* roots or among the children of a root.
C9_OrphanListedAsRoot ==
    screen.rendered =>
        \A n \in DOMAIN latest_metrics(history).items :
            latest_metrics(history).items[n].parent
                \notin DOMAIN latest_metrics(history).items
            => /\ n \in root_items(latest_metrics(history))
               /\ n \in DOMAIN screen.avg

(***************************************************************************)
(* The live session with a consumer loop that keeps running: whenever it   *)
(* is not paused, App::run calls handle_poll in every iteration.           *)
(***************************************************************************)
FairSpec == Spec /\ SF_vars(Consumer)

\* C10: once the poller has ended on a failed cycle, the run loop of the
\* consumer eventually ends (with the error, unless the user quits first),
\* whether the consumer is polling or paused.
C10_ConsumerDetectsFailure ==
    [](schedState = "failed" => <>(appState # "running"))

(***************************************************************************)
(* The whole life of a session: MetricsPollerThread::start_thread on the   *)
(* main thread, then the poller thread, whose poll cycle is followed one   *)
(* collaborator call at a time, beside the consumer.                       *)
(***************************************************************************)
MaxLifePolls == 2      \* poll cycles of a session whose calls are followed

\* the calls of start_thread that can fail, in order: find_cookie and
\* connect, get_system_version, set_system_flag_bool(.., "true")
ConnectSteps == <<"connect", "system_version", "system_flag.microstate_accounting.true">>

\* the call that ends a cycle: set_system_flag_bool("microstate_accounting",
\* "reset") (metrics.rs 473-475)
MsaccResetEnables == "system_flag.microstate_accounting.true"

MsaccReset == "system_flag.microstate_accounting.reset"

\* erlang:system_flag(microstate_accounting, Value) on the node: true and
\* false turn the accounting on and off, reset zeroes its counters and
\* leaves it as it is
SystemFlag(flag, call) ==
    CASE call = "system_flag.microstate_accounting.true" -> TRUE
      [] call = "system_flag.microstate_accounting.false" -> FALSE
      [] OTHER -> flag

\* the collaborator calls of poll_once, in the order of its awaits
CallOrderResetFirst ==
    <<MsaccReset,
      "statistics.microstate_accounting",
      "system_info.process_count", "system_info.port_count",
      "system_info.atom_count", "system_info.ets_count",
      "statistics.context_switches", "statistics.exact_reductions",
      "statistics.garbage_collection", "statistics.runtime", "statistics.io",
      "statistics.run_queue_lengths_all", "memory">>

CallOrder ==
    <<"statistics.microstate_accounting",
      "system_info.process_count", "system_info.port_count",
      "system_info.atom_count", "system_info.ets_count",
      "statistics.context_switches", "statistics.exact_reductions",
      "statistics.garbage_collection", "statistics.runtime", "statistics.io",
      "statistics.run_queue_lengths_all", "memory",
      MsaccReset>>

NumCalls == Len(CallOrder)

PollerCall(name) == [unit |-> "poller", name |-> name]

\* let interval = Duration::from_secs(polling_interval), in ticks
Interval == PollingInterval * TicksPerSec

\* interval.checked_sub(elapsed), and the sleep for the Some it gives
SleepWholeInterval(interval, e) == interval

SleepNever(interval, e) == 0

SleepDuration(interval, e) ==
    LET d == checked_sub(interval, e) IN IF d[1] THEN d[2] ELSE 0

\* the ?s of start_thread return before the thread is spawned
SpawnsAlways(failAt) == TRUE

SpawnsThread(failAt) == failAt = 0

\* start_thread; failAt: the step of ConnectSteps that fails, 0 for none.
\* The MetricsPoller it returns is given to the App, whose run begins.
StartThread(failAt) ==
    /\ schedState = "connecting"
    /\ schedState' = IF SpawnsThread(failAt) THEN "polling" ELSE "connect_failed"
    /\ IF failAt = 0
       THEN /\ old_flag' = remote_flag
            /\ remote_flag' = TRUE
            /\ guard' = "held"
            /\ appState' = "running"
            /\ start' = now
       ELSE /\ appState' = "error"
            /\ UNCHANGED <<old_flag, remote_flag, guard, start>>
    /\ UNCHANGED <<now, prev_metrics, polls, queue, pause, history, averages,
                   screen, restore, cycleVars, replayVars>>

\* the loop after poll_once returned Err: break
AfterErrRetries == "polling"

AfterErr == "failed"

\* self.prev_metrics when poll_once returns at a failed call: the cycle's
\* Metrics is a local that is dropped
PrevAfterErrPartial(prev, ts) == MetricsNew(ts)

PrevAfterErr(prev, ts) == prev

\* memory.remove("total"): <<TRUE, v>> for Some(v), <<FALSE, 0>> for None
RemoveTotal(memory) ==
    IF "total" \in DOMAIN memory THEN <<TRUE, memory["total"]>> ELSE <<FALSE, 0>>

\* the place of get_memory among the calls of a cycle
MemoryIndex == CHOOSE i \in 1..NumCalls : CallOrder[i] = "memory"

\* expect("unreachable") on the None of a reply without "total": the
\* poller thread panics and unwinds, which drops the sender
AfterMissingTotalErr == "failed"

AfterMissingTotal == "panicked"

\* get_memory returns Ok with the map memory, which poll_once then reads
MemoryReply(memory) ==
    /\ schedState = "polling"
    /\ polls < MaxLifePolls
    /\ pc = MemoryIndex - 1
    /\ calls' = Append(calls, PollerCall(CallOrder[MemoryIndex]))
    /\ pc' = pc + 1
    /\ IF RemoveTotal(memory)[1]
       THEN UNCHANGED <<schedState, fault>>
       ELSE schedState' = AfterMissingTotal /\ fault' = "missing_total"
    /\ UNCHANGED <<now, prev_metrics, polls, queue, appState, uiVars, flagVars,
                   cycleStart, elapsed, slept, msacc_items, replayVars>>

\* One collaborator call of poll_once, awaited; the first one follows
\* Metrics::new(), which stamps the cycle, the thread having slept.
\* ok: the call succeeds; if not, poll_once returns Err and run ends.
\* The Ok of get_memory is MemoryReply
CollabCall(ok) ==
    /\ schedState = "polling"
    /\ polls < MaxLifePolls
    /\ pc < NumCalls
    /\ ok => pc # MemoryIndex - 1
    /\ LET ts == IF pc = 0 THEN now + slept ELSE cycleStart
       IN  /\ now' = IF pc = 0 THEN ts ELSE now
           /\ cycleStart' = ts
           /\ calls' = Append(IF pc = 0 THEN <<>> ELSE calls,
                              PollerCall(CallOrder[pc + 1]))
           /\ IF ok
              THEN /\ pc' = pc + 1
                   /\ UNCHANGED <<schedState, prev_metrics>>
              ELSE /\ pc' = pc
                   /\ schedState' = AfterErr
                   /\ prev_metrics' = PrevAfterErr(prev_metrics, ts)
           /\ fault' = IF ok THEN fault ELSE "call_failed"
           /\ remote_flag' = IF ok THEN SystemFlag(remote_flag, CallOrder[pc + 1])
                              ELSE remote_flag
    /\ UNCHANGED <<polls, queue, appState, uiVars, guard, old_flag, restore,
                   elapsed, slept, msacc_items, replayVars>>

\* The rest of the iteration once every call has returned Ok: calc_delta,
\* the store of prev_metrics, the send and the sleep.  r: the replies the
\* calls got; e: the time since the cycle's timestamp
CycleEnd(r, e) ==
    /\ pc = NumCalls
    /\ PollOk(r, cycleStart, MaxLifePolls)
    /\ now' = cycleStart + e
    /\ pc' = 0
    /\ elapsed' = e
    /\ slept' = IF SendIsErr(guard) THEN 0 ELSE SleepDuration(Interval, e)
    /\ UNCHANGED <<flagVars, calls, cycleStart, fault, msacc_items>>

LifeReplies == {BaseReply, [BaseReply EXCEPT !.runtime = 1500, !.io = <<30, 50>>]}

\* the maps get_memory returns: with the total, and without it
LifeMemories == {BaseReply.memory, [processes |-> 16]}

\* the time a cycle takes: none, the whole interval, more than the interval
LifeElapsed == {0, Interval, Interval + 1}

InitLife ==
    /\ now = 0
    /\ schedState = "connecting"
    /\ prev_metrics = MetricsNew(0)
    /\ polls = 0
    /\ queue = <<>>
    /\ appState = "starting"
    /\ pause = FALSE
    /\ history = <<>>
    /\ averages = NoItems
    /\ start = 0
    /\ screen = NoScreen
    /\ remote_flag \in BOOLEAN
    /\ guard = "none"
    /\ old_flag = FALSE
    /\ restore = ""
    /\ pc = 0
    /\ calls = <<>>
    /\ cycleStart = 0
    /\ elapsed = 0
    /\ slept = 0
    /\ fault = ""
    /\ msacc_items = NoItems
    /\ recording = FALSE
    /\ store = <<>>
    /\ replay_mode = FALSE
    /\ replay_cursor_time = 0

NextLife ==
    \/ \E failAt \in 0..Len(ConnectSteps) : StartThread(failAt)
    \/ \E ok \in BOOLEAN : CollabCall(ok)
    \/ \E memory \in LifeMemories : MemoryReply(memory)
    \/ \E r \in LifeReplies, e \in LifeElapsed : CycleEnd(r, e)
    \/ HandlePollOk
    \/ HandlePollDisconnected
    \/ KeyQuit
    \/ KeyPause

SpecLife == InitLife /\ [][NextLife]_vars

\* the calls the poller thread issued since the cycle began
PollerCalls(log) == SelectSeq(log, LAMBDA c : c.unit = "poller")

MainCalls(log) == SelectSeq(log, LAMBDA c : c.unit = "main")

\* a call of the cycle was issued and did not return Ok
CycleFailed == pc < NumCalls /\ Len(PollerCalls(calls)) = pc + 1

\* the consumer takes a snapshot from the queue, or leaves it alone
NothingPublished == queue' = queue \/ (queue # <<>> /\ queue' = Tail(queue))

\* C11: the poller's Terminated state is absorbing: once a cycle failed
\* the poller is terminated and stays so, issues no further collaborator
\* call, produces and publishes no further snapshot, and does not retry.
C11_TerminatedAbsorbing ==
    /\ [](CycleFailed => schedState = "failed")
    /\ [][(CycleFailed \/ schedState = "failed") =>
            /\ schedState' = "failed"
            /\ PollerCalls(calls') = PollerCalls(calls)
            /\ UNCHANGED <<pc, polls, prev_metrics, cycleStart>>
            /\ NothingPublished]_vars

\* the second cycle failed at its reset, and the consumer went on to take
\* the first snapshot and to find the channel disconnected
C11_Witness ==
    /\ schedState = "failed"
    /\ polls = 1
    /\ pc = NumCalls - 1
    /\ history # <<>>
    /\ appState = "error"

\* the names the first and the last insert of poll_once give
FirstInserted == <<"utilization.", "scheduler">>
LastInserted == <<"memory.", "processes", "_bytes">>

\* C12: when a collaborator call of a cycle fails, the reset included, the
\* cycle emits no snapshot: nothing is published and the stored previous
\* snapshot is unchanged; a snapshot is only produced once every call has
\* returned, and so none is partial.
C12_FailedCycleEmitsNothing ==
    /\ [][(~CycleFailed /\ CycleFailed') =>
            /\ queue' = queue
            /\ prev_metrics' = prev_metrics
            /\ polls' = polls]_vars
    /\ [][polls' # polls => pc = NumCalls]_vars
    /\ [](\A i \in 1..Len(Stream) :
            {FirstInserted, LastInserted} \subseteq DOMAIN Stream[i].items)
    /\ [](polls > 0 => prev_metrics.items # NoItems)

\* the reset of the second cycle failed: the first snapshot is still the
\* stored one
C12_Witness ==
    /\ CycleFailed
    /\ pc = NumCalls - 1
    /\ polls = 1
    /\ prev_metrics.timestamp < cycleStart

CallNames(log) == [i \in 1..Len(log) |-> log[i].name]

MsaccRead == "statistics.microstate_accounting"
\* C13: within a poll cycle the collaborator calls are issued one after
\* another, a call only once the one before it has returned, in the same
\* order in every cycle; the microstate accounting read comes before every
\* other query and the microstate accounting reset is the last call.
C13_CallsInFixedOrder ==
    LET P == CallNames(PollerCalls(calls)) IN
    /\ P # <<>> => P[1] = MsaccRead
    /\ \A i, j \in 1..Len(P) : i < j => P[i] # P[j]
    /\ \A i \in 1..Len(P) : P[i] = MsaccReset => i = Len(P) /\ i = NumCalls
    /\ pc > 0 => Len(P) \in {pc, pc + 1}
    /\ pc = NumCalls =>
        P = <<MsaccRead,
              "system_info.process_count", "system_info.port_count",
              "system_info.atom_count", "system_info.ets_count",
              "statistics.context_switches", "statistics.exact_reductions",
              "statistics.garbage_collection", "statistics.runtime",
              "statistics.io", "statistics.run_queue_lengths_all", "memory",
              MsaccReset>>

\* every call of the second cycle has returned, the reset last
C13_Witness ==
    /\ polls = 1
    /\ pc = NumCalls
    /\ calls[Len(calls)] = PollerCall(MsaccReset)
    /\ calls[1] = PollerCall(MsaccRead)

\* a session that enabled the remote flag has ended: run has returned,
\* with Ok, with an error or by a panic
Ended == guard # "none" /\ appState \in {"quit", "error", "panic"}

\* The original statement of C14: however the session ends, the guard is
\* released and the remote flag is back to the value it had before.
C14_FlagRestored ==
    Ended => guard = "released" /\ remote_flag = old_flag

\* C14, amended: however the session ends, the guard is released; the
\* remote flag is left true if it was true before, and is set back to
\* false otherwise unless the restoring call fails: then the failure is
\* logged and the flag stays enabled.  Once released, the flag is not
\* touched again by the calls the poller thread still issues.
C14_FlagRestoredBestEffort ==
    /\ [](Ended =>
            /\ guard = "released"
            /\ restore \in {"kept", "disabled", "warned"}
            /\ restore = "kept" <=> old_flag
            /\ restore # "warned" => remote_flag = old_flag
            /\ restore = "warned" => remote_flag)
    /\ [](guard = "held" => appState = "running" /\ remote_flag)
    /\ [][guard = "released" => remote_flag' = remote_flag /\ guard' = guard]_vars

\* the poller failed, the consumer found the channel disconnected, and the
\* flag, which was off before the session, is off again
C14_Witness ==
    /\ schedState = "failed"
    /\ appState = "error"
    /\ ~old_flag
    /\ restore = "disabled"
    /\ ~remote_flag

\* C15: a failure of the restoring call is only logged: the step that ends
\* run gives the outcome of its cause (a quit ends with Ok, a disconnected
\* channel with its error) whether or not the call fails, and a panic only
\* comes from handling a received snapshot.
C15_RestoreFailureOnlyLogged ==
    [][(appState = "running" /\ appState' # "running") =>
         /\ guard' = "released"
         /\ \/ appState' = "quit"
            \/ /\ appState' = "error"
               /\ ~pause /\ queue = <<>> /\ schedState # "polling"
            \/ /\ appState' = "panic"
               /\ ~pause /\ queue # <<>>]_vars

\* the restoring call failed when the user quit: run has ended with Ok
C15_Witness ==
    /\ restore = "warned"
    /\ appState = "quit"
    /\ remote_flag
    /\ schedState = "polling"

\* C16: when connecting, reading the version or enabling the flag fails,
\* the poller is terminated at once with the error: no thread is started,
\* no collaborator call of a cycle is issued, no snapshot is produced or
\* published, and there is no guard to release.
C16_ConnectFailureStartsNothing ==
    (guard = "none" /\ appState # "starting") =>
        /\ appState = "error"
        /\ schedState = "connect_failed"
        /\ polls = 0
        /\ pc = 0
        /\ calls = <<>>
        /\ queue = <<>>
        /\ history = <<>>
        /\ prev_metrics = MetricsNew(0)
        /\ restore = ""

C16_Witness ==
    /\ schedState = "connect_failed"
    /\ appState = "error"
    /\ guard = "none"

\* C17: once the consumer has dropped the receiver, the next publish of
\* the poller fails and the poller ends without an error: it leaves its
\* loop, publishes nothing, and then runs no cycle and issues no call.
C17_ReceiverDroppedStopsPoller ==
    /\ [][(guard = "released" /\ polls' # polls) =>
            schedState' = "stopped" /\ queue' = queue]_vars
    /\ [][schedState = "stopped" =>
            /\ UNCHANGED <<schedState, polls, prev_metrics, pc, cycleStart, queue>>
            /\ PollerCalls(calls') = PollerCalls(calls)]_vars
    /\ [](schedState = "stopped" => guard = "released")

\* the user quit during the second cycle, whose publish then failed
C17_Witness ==
    /\ schedState = "stopped"
    /\ appState = "quit"
    /\ polls = 2
    /\ Len(Stream) = 1

\* C18: the queue is an unbounded FIFO from one producer to one consumer:
\* while the receiver exists a publish queues the snapshot whatever the
\* length of the queue, paused or not, and never ends the loop; the
\* consumer receives the snapshots one by one from the head, each once and
\* in the order of publication; the snapshots queued when the poller ends
\* are received before the disconnection is seen.
C18_QueueIsUnboundedFifo ==
    /\ [][(guard = "held" /\ polls' # polls) =>
            /\ queue' = Append(queue, prev_metrics')
            /\ schedState' = "polling"]_vars
    /\ [][history' # history =>
            /\ queue # <<>>
            /\ queue' = Tail(queue)
            /\ history' = Append(history, Head(queue))]_vars
    /\ [](\A i \in 2..Len(Stream) : Stream[i - 1].timestamp < Stream[i].timestamp)
    /\ [](guard = "held" => Len(Stream) = polls)
    /\ [](appState = "error" => queue = <<>> /\ Len(history) = polls)

\* the consumer paused before the first snapshot: every snapshot of the
\* session is in the queue
C18_Witness ==
    /\ pause
    /\ appState = "running"
    /\ history = <<>>
    /\ Len(queue) = MaxPolls

\* C19: the consumer's side issues no collaborator call: no call made on
\* the main thread comes between the collaborator calls of a poll cycle
\* that the poller thread is making.
C19_NoMainCallInsideACycle ==
    MainCalls(calls) # <<>> =>
        ~(schedState = "polling" /\ 0 < pc /\ pc < NumCalls)

\* C20: after a publish the poller sleeps for max(0, interval - elapsed):
\* the sleep is never negative and does not end the loop, a cycle that took
\* longer than the interval is followed at once by the next, and the
\* starts of two consecutive cycles are at least an interval apart.
C20_SleepIsRemainder ==
    /\ [](slept >= 0)
    /\ []((polls > 0 /\ schedState # "stopped") => slept = Max(0, Interval - elapsed))
    /\ [](elapsed > Interval => slept = 0)
    /\ []((polls > 0 /\ pc > 0) =>
            /\ cycleStart - prev_metrics.timestamp = Max(Interval, elapsed)
            /\ cycleStart - prev_metrics.timestamp >= Interval)
    /\ [](\A i \in 2..Len(Stream) :
            Stream[i].timestamp - Stream[i - 1].timestamp >= Interval)
    /\ [][(guard = "held" /\ polls' # polls) => schedState' = "polling"]_vars

\* the first cycle took a tick more than the interval: the second one
\* began as soon as the first was published
C20_Witness ==
    /\ polls = 1
    /\ pc > 0
    /\ elapsed = Interval + 1
    /\ slept = 0
    /\ cycleStart = prev_metrics.timestamp + elapsed

(***************************************************************************)
(* Record and replay: a live session that records, then the replay of the  *)
(* file it wrote.  The replay has no poller: the keys 'h' and 'l' move a   *)
(* cursor and render_replay_ui_if_need rebuilds the UI state from the      *)
(* store.                                                                  *)
(***************************************************************************)
MaxRecPolls == 3       \* poll cycles of a session that is recorded

\* Duration::from_secs, in ticks
Secs(n) == n * TicksPerSec

\* Duration::saturating_sub
saturating_sub(a, b) == IF a >= b THEN a - b ELSE 0

\* the start of the range the chart history is read from: the cursor
ReplayWindowStartBack(time) == saturating_sub(time, Secs(CHART_DURATION))

ReplayWindowStart(time) == time

\* the end of the range the chart history is read from (ui.rs 193)
ReplayWindowEndInTicks(time) == time + CHART_DURATION

ReplayWindowEnd(time) == time + Secs(CHART_DURATION)

\* the start of the range the averages are built from (ui.rs 200)
ReplayAvgStart(time) == saturating_sub(time, Secs(CHART_DURATION))

RECURSIVE InsertEach(_, _)
\* the loop of render_replay_ui_if_need over the snapshots ms that feeds
\* the averages (ui.rs 199-212)
InsertEach(avgs, ms) ==
    IF ms = <<>> THEN [averages |-> avgs, panic |-> FALSE]
    ELSE IF InsertPanics(avgs, Head(ms)) THEN [averages |-> avgs, panic |-> TRUE]
    ELSE InsertEach(InsertAll(avgs, Head(ms)), Tail(ms))

\* what render_replay_ui_if_need builds for the cursor time: the history is
\* cleared and filled from range(time, time + 60 s), the averages are
\* cleared and filled from range(time - 60 s, time)
ReplayView(st, time) ==
    LET fed == InsertEach(NoItems,
                          get_metrics_range(st, ReplayAvgStart(time), time))
    IN  [history |-> get_metrics_range(st, ReplayWindowStart(time),
                                       ReplayWindowEnd(time)),
         averages |-> fed.averages,
         panic |-> fed.panic]

\* render_replay_ui_if_need, then the render_ui that ends handle_key_event;
\* outside a replay it returns at once
RenderReplay(time, old) ==
    IF ~replay_mode
    THEN /\ screen' = render_ui(history, averages, now, start, old)
         /\ UNCHANGED <<appState, history, averages>>
    ELSE LET v == ReplayView(store, time)
         IN  IF v.panic
             THEN /\ appState' = "panic"
                  /\ history' = v.history
                  /\ UNCHANGED <<averages, screen>>
             ELSE /\ appState' = appState
                  /\ history' = v.history
                  /\ averages' = v.averages
                  /\ screen' = render_ui(v.history, v.averages, now, start, old)

\* App::handle_key_event, 'h': the cursor goes back a second, not below 0
KeyScrubBack ==
    /\ appState = "running"
    /\ LET time == saturating_sub(replay_cursor_time, Secs(1))
       IN  /\ replay_cursor_time' = time
           /\ RenderReplay(time, screen)
    /\ UNCHANGED <<now, schedVars, queue, pause, start, flagVars, cycleVars,
                   recording, store, replay_mode>>

\* the condition under which 'l' moves the cursor (ui.rs 135-136)
ScrubForwardUpToLast(cursor, last) == cursor + Secs(1) <= last

ScrubForwardAllowed(cursor, last) == cursor + Secs(1) < last

\* App::handle_key_event, 'l': the cursor goes forward a second while that
\* stays below the last recorded time; the screen is drawn again anyway
KeyScrubForward ==
    /\ appState = "running"
    /\ IF ScrubForwardAllowed(replay_cursor_time, replay_last_time(store))
       THEN LET time == replay_cursor_time + Secs(1)
            IN  /\ replay_cursor_time' = time
                /\ RenderReplay(time, screen)
       ELSE /\ screen' = render_ui(history, averages, now, start, screen)
            /\ UNCHANGED <<replay_cursor_time, appState, history, averages>>
    /\ UNCHANGED <<now, schedVars, queue, pause, start, flagVars, cycleVars,
                   recording, store, replay_mode>>

\* App::run in a replay: each round of the loop that finds no event sleeps
\* POLL_TIMEOUT; the rounds up to the end of the first minute since the
\* replay was opened are taken at once
ReplaySleep ==
    /\ appState = "running"
    /\ replay_mode
    /\ now < start + Secs(ONE_MINUTE)
    /\ now' = start + Secs(ONE_MINUTE)
    /\ UNCHANGED <<schedVars, queue, appState, uiVars, flagVars, cycleVars,
                   replayVars>>

\* The file a session recorded is opened by `erldash replay` once the
\* session has ended: App::new, then App::run up to its loop, which begins
\* with render_replay_ui_if_need
Reopen ==
    /\ recording
    /\ ~replay_mode
    /\ guard = "released"
    /\ appState \in {"quit", "error", "panic"}
    /\ recording' = FALSE
    /\ replay_mode' = TRUE
    /\ replay_cursor_time' = 0
    /\ schedState' = "none"
    /\ prev_metrics' = MetricsNew(0)
    /\ polls' = 0
    /\ queue' = <<>>
    /\ pause' = FALSE
    /\ start' = now
    /\ guard' = "none"
    /\ restore' = ""
    /\ LET v == ReplayView(store, 0)
       IN  /\ appState' = IF v.panic THEN "panic" ELSE "running"
           /\ history' = v.history
           /\ averages' = v.averages
           /\ screen' = IF v.panic THEN NoScreen
                        ELSE render_ui(v.history, v.averages, now, start', NoScreen)
    /\ UNCHANGED <<now, store, remote_flag, old_flag, cycleVars>>

RecReplies == LifeReplies

\* the time between two cycles of the recorded session: the interval, or
\* a cycle that took half a second less than a minute
RecSpacings == {Interval, Secs(ONE_MINUTE) - 1}

\* a live session about to connect, as InitLife, that records and finds
\* the remote flag on
InitRecord ==
    /\ now = 0
    /\ schedState = "connecting"
    /\ prev_metrics = MetricsNew(0)
    /\ polls = 0
    /\ queue = <<>>
    /\ appState = "starting"
    /\ pause = FALSE
    /\ history = <<>>
    /\ averages = NoItems
    /\ start = 0
    /\ screen = NoScreen
    /\ remote_flag = TRUE
    /\ guard = "none"
    /\ old_flag = FALSE
    /\ restore = ""
    /\ pc = 0
    /\ calls = <<>>
    /\ cycleStart = 0
    /\ elapsed = 0
    /\ slept = 0
    /\ fault = ""
    /\ msacc_items = NoItems
    /\ recording = TRUE
    /\ store = <<>>
    /\ replay_mode = FALSE
    /\ replay_cursor_time = 0

\* The keys that move the cursor are followed in a replay only
NextReplay ==
    \/ \E failAt \in 0..Len(ConnectSteps) : StartThread(failAt)
    \/ \E r \in RecReplies, spacing \in RecSpacings :
            PollCycle(r, spacing, MaxRecPolls)
    \/ PollFail
    \/ HandlePollOk
    \/ HandlePollDisconnected
    \/ KeyQuit
    \/ KeyPause
    \/ Redraw
    \/ ReplaySleep
    \/ Reopen
    \/ replay_mode /\ KeyScrubBack
    \/ replay_mode /\ KeyScrubForward

SpecReplay == InitRecord /\ [][NextReplay]_vars

\* the durations a recorded session may have lasted: it ended after its
\* final entry was stamped
TotalDurations(st) ==
    (replay_last_time(st) + 1)..(replay_last_time(st) + Secs(1))

Within(st, from, to) ==
    {k \in 1..Len(st) : from <= st[k].elapsed /\ st[k].elapsed < to}

\* C22: the snapshots the replay reads for a cursor are, in order, exactly
\* the recorded ones whose elapsed time lies in [cursor, cursor + 60 s):
\* each is a recorded entry, none is left out, none is added; for a session
\* shorter than 120 s and a cursor at 65 s they are those recorded from
\* 65 s on.
C22_RangeIsHalfOpenAndClamped ==
    (replay_mode /\ appState = "running") =>
        LET from == replay_cursor_time
            to == replay_cursor_time + Secs(CHART_DURATION)
            in == Within(store, from, to)
        IN  /\ Len(history) = Cardinality(in)
            /\ \A i \in 1..Len(history) :
                \E k \in in : /\ history[i].timestamp = store[k].elapsed
                              /\ history[i].items = store[k].metrics.items
                              /\ Cardinality({j \in in : j < k}) = i - 1
            /\ \A i \in 2..Len(history) :
                history[i - 1].timestamp < history[i].timestamp
            /\ (from = Secs(65) /\ replay_last_time(store) < Secs(120))
                => /\ in = {k \in 1..Len(store) : store[k].elapsed >= Secs(65)}
                   /\ \A i \in 1..Len(history) :
                        /\ history[i].timestamp >= Secs(65)
                        /\ history[i].timestamp < Secs(120)

\* a session of three snapshots, the last at 119 s: at 65 s the replay
\* reads that one only
C22_Witness ==
    /\ replay_mode
    /\ replay_cursor_time = Secs(65)
    /\ Len(store) = 3
    /\ replay_last_time(store) = Secs(120) - 2
    /\ Len(history) = 1
    /\ history[1].timestamp = Secs(120) - 2

\* C23: the replay cursor is clamped at both ends whatever keys are
\* pressed: it is never negative, it moves a second at a time, it moves
\* forward only while cursor + 1 s is strictly below last_elapsed(), so
\* that it is either 0 or strictly below the elapsed time of the final
\* entry, and it stays at 0 for a recording no longer than a second.
C23_CursorClamped ==
    /\ [](replay_cursor_time >= 0)
    /\ [](replay_mode =>
            \/ replay_cursor_time = 0
            \/ replay_cursor_time < replay_last_time(store))
    /\ []((replay_mode /\ replay_last_time(store) <= Secs(1))
            => replay_cursor_time = 0)
    /\ [][(replay_mode /\ replay_mode') =>
            /\ replay_cursor_time' \in {replay_cursor_time,
                                        replay_cursor_time + Secs(1),
                                        replay_cursor_time - Secs(1)}
            /\ replay_cursor_time' > replay_cursor_time
                => replay_cursor_time' < replay_last_time(store)]_vars

\* the cursor went forward until the next second would reach the last
\* recorded time
C23_Witness ==
    /\ replay_mode
    /\ appState = "running"
    /\ replay_cursor_time > Secs(1)
    /\ replay_cursor_time + Secs(1) >= replay_last_time(store)

\* C24: in a replay the snapshot queue is never polled and no poller runs:
\* the queue, the poller's state and its count stay as they are and the
\* run loop never ends on a disconnected channel; and after every change
\* of the cursor, as in every state of the replay, the chart history is
\* exactly range(cursor, cursor + 60 s), whatever it held before.
C24_ReplayRebuildsFromStore ==
    /\ [][replay_mode =>
            UNCHANGED <<queue, schedState, polls, prev_metrics, store>>]_vars
    /\ [](replay_mode => appState # "error" /\ schedState = "none")
    /\ []((replay_mode /\ appState = "running") =>
            history = get_metrics_range(store, replay_cursor_time,
                                        replay_cursor_time + Secs(CHART_DURATION)))
    /\ [][(replay_mode /\ replay_cursor_time' # replay_cursor_time) =>
            history' = get_metrics_range(store, replay_cursor_time',
                                         replay_cursor_time' + Secs(CHART_DURATION))]_vars

\* the cursor is past the first entry of a recording: the history no
\* longer holds it
C24_Witness ==
    /\ replay_mode
    /\ appState = "running"
    /\ replay_cursor_time = Secs(2)
    /\ Len(store) = 3
    /\ Len(history) = 1
    /\ history[1].timestamp >= replay_cursor_time

\* C25: the run loop ends with success exactly when the user asks to quit,
\* and a quit is honoured in every state of the loop, polling, paused or
\* replaying; it ends with an error when connecting failed, before the loop
\* began, or when the consumer finds the channel of a failed poller
\* disconnected, and not otherwise.
C25_ExitOutcome ==
    /\ [](appState = "running" => ENABLED KeyQuit)
    /\ [][KeyQuit => appState' = "quit"]_vars
    /\ [][(appState # "quit" /\ appState' = "quit") => KeyQuit]_vars
    /\ [][(appState # "error" /\ appState' = "error") =>
            \/ appState = "starting" /\ schedState' = "connect_failed"
            \/ /\ appState = "running"
               /\ schedState = "failed"
               /\ queue = <<>>
               /\ ~pause /\ ~replay_mode]_vars
    /\ [](schedState = "connect_failed" => appState = "error")
    /\ [][HandlePollDisconnected => appState' = "error"]_vars

\* the user quit a paused replay
C25_Witness ==
    /\ replay_mode
    /\ pause
    /\ appState = "quit"
    /\ replay_cursor_time > 0

\* C26: the set of metric names is the same in every snapshot of a
\* session, whatever replies the collector accepted.
C26_NamesStable ==
    \A i, j \in 1..Len(Stream) :
        DOMAIN Stream[i].items = DOMAIN Stream[j].items

MemoryTotalName == <<"memory.total_bytes">>

\* C27: a get_memory reply without the key total is handled fail-fast: the
\* poller does not end as after a failed call but panics; the cycle emits
\* nothing (no snapshot without memory.total_bytes is ever published) and
\* issues no further call, the reset included; the poller stays aborted,
\* its sender is gone, and the consumer that has drained the queue finds
\* the channel disconnected.
C27_MissingTotalFailsFast ==
    /\ [](fault = "missing_total" => schedState = "panicked" /\ ~SenderAlive)
    /\ [][(fault = "" /\ fault' = "missing_total") =>
            UNCHANGED <<polls, queue, prev_metrics>>]_vars
    /\ [][schedState = "panicked" =>
            /\ schedState' = "panicked"
            /\ UNCHANGED <<polls, prev_metrics, pc>>
            /\ PollerCalls(calls') = PollerCalls(calls)
            /\ NothingPublished]_vars
    /\ [](schedState = "panicked" =>
            /\ pc = MemoryIndex
            /\ PollerCall(MsaccReset) \notin {calls[i] : i \in 1..Len(calls)})
    /\ [](\A i \in 1..Len(Stream) : MemoryTotalName \in DOMAIN Stream[i].items)
    /\ []((schedState = "panicked" /\ appState = "running" /\ ~pause
           /\ queue = <<>>) => ENABLED HandlePollDisconnected)

\* the second cycle's get_memory reply lacked the total: the consumer took
\* the first snapshot and then found the channel disconnected
C27_Witness ==
    /\ fault = "missing_total"
    /\ schedState = "panicked"
    /\ polls = 1
    /\ Len(history) = 1
    /\ appState = "error"

IoTotalName == <<"statistics.io.total_bytes">>
IoInputName == <<"statistics.io.input_bytes">>
IoOutputName == <<"statistics.io.output_bytes">>

\* the Counter n of snapshot i did not fall below its value in the
\* snapshot before
NotReset(i, n) ==
    Stream[i].items[n].raw_value >= Stream[i - 1].items[n].raw_value

IsSuffix(s, t) ==
    /\ Len(s) <= Len(t)
    /\ \A i \in 1..Len(s) : s[i] = t[Len(t) - Len(s) + i]

\* the age of the i-th snapshot of the history in whole seconds
Age(i) == AsSecs(latest_metrics(history).timestamp - history[i].timestamp)

\* C29: once the consumer has processed a received snapshot, every
\* snapshot of the chart history is at most 60 whole seconds older than
\* the newest, the history is ordered by timestamp, and processing a
\* snapshot leaves the earlier history with the snapshot appended less
\* some of its oldest elements, the received snapshot always kept as the
\* newest.
C29_WindowConsistent ==
    /\ [](/\ \A i \in 1..Len(history) : Age(i) <= ONE_MINUTE
          /\ \A i \in 1..Len(history) : \A j \in i..Len(history) :
                history[i].timestamp <= history[j].timestamp)
    /\ [][(HandlePollOk /\ appState' = "running") =>
            /\ history' # <<>>
            /\ latest_metrics(history') = Head(queue)
            /\ IsSuffix(history', Append(history, Head(queue)))]_vars

\* two snapshots went out of the window at once: the one kept with the
\* newest is 40 s older than it and was taken 40 s or more after the first
C29_Witness ==
    /\ appState = "running"
    /\ Len(history) = 2
    /\ Age(1) = 40
    /\ AsSecs(history[1].timestamp - start) >= 40

\* the accumulators after the snapshot m is inserted and then evicted
\* with the values it was inserted with
RoundTrip(avgs, m) == EvictAll(InsertAll(avgs, m), m)

\* C30: inserting a snapshot into the aggregator and evicting that same
\* snapshot returns every accumulator it touched to the sum and the
\* member count it had before the insert, whatever the kind of the entry,
\* a Counter without a rate included.
C30_InsertEvictRoundTrip ==
    (queue # <<>> /\ ~InsertPanics(averages, Head(queue))) =>
        \A n \in DOMAIN averages \cap DOMAIN Head(queue).items :
            RoundTrip(averages, Head(queue))[n] = averages[n]

(***************************************************************************)
(* A long live session at the shortest polling interval, every cycle       *)
(* taking less than the interval: the case that fills the chart history.   *)
(***************************************************************************)
MaxBoundPolls == 62    \* poll cycles of a session whose history is counted

\* the time from one snapshot's timestamp to the next one's: the cycle
\* took e, then the thread sleeps interval.checked_sub(e) if that is Some
\* (metrics.rs 313-320)
CycleSpacingNoSleep(interval, e) == e

CycleSpacing(interval, e) == e + SleepDuration(interval, e)

\* the time a cycle of this session takes: a tick less than the interval
BoundElapsed == Interval - 1

NextBound ==
    \/ PollCycle(BaseReply, CycleSpacing(Interval, BoundElapsed), MaxBoundPolls)
    \/ PollFail
    \/ HandlePollOk
    \/ HandlePollDisconnected
    \/ KeyQuit
    \/ KeyPause

SpecBound == Init /\ [][NextBound]_vars

\* C31: with a polling interval of one second, the shortest there is, the
\* chart history never holds more than 61 snapshots, however the polls,
\* the pauses and the resumes follow one another.
C31_HistoryBounded ==
    Len(history) <= CHART_DURATION \div PollingInterval + 1

\* the history is full and its oldest snapshot is no longer the first of
\* the session: an eviction kept it at 61
C31_Witness ==
    /\ Len(history) = CHART_DURATION \div PollingInterval + 1
    /\ history[1].timestamp > start

\* C32: in a live session the count of every accumulator is the number of
\* snapshots of the chart history that hold its name, and every name of
\* the history has an accumulator: the lookup of an eviction never fails
\* and no count goes below zero, so handle_poll never panics, also when
\* the snapshots do not hold the same names.
C32_CountIsHolding ==
    /\ appState # "panic"
    /\ \A i \in 1..Len(history) : DOMAIN history[i].items \subseteq DOMAIN averages
    /\ \A n \in DOMAIN averages : averages[n].cnt = Cardinality(Holding(n))

\* the only snapshot that held a name went out of the window: its
\* accumulator is left with the count 0
C32_Witness ==
    /\ appState = "running"
    /\ history # <<>>
    /\ \E n \in DOMAIN averages : averages[n].cnt = 0 /\ Holding(n) = {}

\* the snapshot m is a tree of two levels: a parent names an entry of m
\* that has no parent, and the roots with the children of each root list
\* every entry once
WellFormedTree(m) ==
    LET roots == root_items(m)
        listed == roots \cup UNION {child_items(m, r) : r \in roots}
    IN  /\ \A n \in DOMAIN m.items :
              LET p == m.items[n].parent
              IN  p # NoParent => p \in DOMAIN m.items /\ m.items[p].parent = NoParent
        /\ listed = DOMAIN m.items
        /\ \A n \in DOMAIN m.items :
              Cardinality({r \in roots : n = r \/ m.items[n].parent = r}) = 1

\* C33: every snapshot the collector produces is a well-formed tree of two
\* levels: each parent names an entry of the same snapshot that has no
\* parent itself, so root_items and child_items of every root list each
\* entry exactly once.
C33_SnapshotIsTwoLevelTree ==
    /\ \A i \in 1..Len(Stream) : WellFormedTree(Stream[i])
    /\ polls > 0 => WellFormedTree(prev_metrics)

\* a snapshot with several roots, memory categories under the total and
\* the states of a thread type under its utilization
C33_Witness ==
    \E i \in 1..Len(Stream) :
        /\ Cardinality(child_items(Stream[i], MemoryTotalName)) >= 2
        /\ \E r \in root_items(Stream[i]) :
              /\ Stream[i].items[r].kind = "Utilization"
              /\ Cardinality(child_items(Stream[i], r)) >= 2

\* nothing was taken from the channel: what waited still waits, in the
\* same order, before whatever was published since
NothingDequeued ==
    /\ Len(queue') >= Len(queue)
    /\ SubSeq(queue', 1, Len(queue)) = queue

\* C34: while the consumer is paused it takes nothing from the channel and
\* the chart history, the averages and the latest snapshot shown stay as
\* they are, while the poller thread keeps publishing; a snapshot is only
\* consumed when the consumer is not paused, the oldest waiting one first,
\* by the insert-then-evict step.
C34_PauseFreezesView ==
    /\ [][pause => /\ NothingDequeued
                   /\ history' = history
                   /\ averages' = averages]_vars
    /\ [][HandlePollOk =>
            /\ ~pause
            /\ queue' = Tail(queue)
            /\ appState' = "running" =>
                  LET inserted == InsertAll(averages, Head(queue))
                      kept == EvictLoop(Append(history, Head(queue)), inserted,
                                        Head(queue).timestamp, FALSE)
                  IN  /\ history' = kept.history
                      /\ averages' = kept.averages
                      /\ latest_metrics(history') = Head(queue)]_vars

\* paused after the first snapshot was shown, with two more published
\* since and waiting
C34_Witness ==
    /\ appState = "running"
    /\ pause
    /\ history # <<>>
    /\ Len(queue) >= 2

\* the places of the call c in the log of calls
PlacesOf(log, c) == {i \in 1..Len(log) : log[i] = c}

\* C35: once the guard of the flag is released and the flag is back at its
\* value of before the session, no call of a poll cycle still running
\* changes it: however the release and the calls of the cycle in flight
\* follow one another, the flag keeps that value.
C35_NoReEnableAfterRelease ==
    /\ [][guard = "released" => remote_flag' = remote_flag]_vars
    /\ []((guard = "released" /\ restore \in {"kept", "disabled"})
            => remote_flag = old_flag)

\* the consumer turned the flag off while a cycle was in flight, and the
\* cycle's last call, the reset, reached the node after that
C35_Witness ==
    /\ guard = "released"
    /\ restore = "disabled"
    /\ ~remote_flag
    /\ \E i \in PlacesOf(calls, MainCall("system_flag.microstate_accounting.false")) :
          \E j \in PlacesOf(calls, PollerCall(MsaccReset)) : i < j

\* C36: the dashboard is drawn only when the chart history is not empty,
\* so that no draw fails at reading the latest snapshot: a key or a resize
\* before the first snapshot, and a replay whose range at the cursor is
\* empty, draw nothing and do not panic.
C36_DrawsOnlyWithHistory ==
    /\ [](~screen.panicked)
    /\ [][screen' # screen => history' # <<>>]_vars
    /\ [][(history = <<>> /\ history' = <<>>) => screen' = screen]_vars

\* the replay of a recording that holds no snapshot, with 'p' pressed:
\* the history is empty and nothing was drawn
C36_Witness ==
    /\ replay_mode
    /\ appState = "running"
    /\ pause
    /\ get_metrics_range(store, ReplayWindowStart(replay_cursor_time),
                         ReplayWindowEnd(replay_cursor_time)) = <<>>
    /\ history = <<>>
    /\ screen = NoScreen

(***************************************************************************)
(* insert_msacc_metrics on its own, its percentages as f64: the poller     *)
(* thread applies it to the thread list the first call of a cycle returned.*)
(***************************************************************************)
MaxTime == 3           \* the largest time a state of a thread is given

MsaccThread(id, ty, sleep, emulator, gc) ==
    [thread_id |-> id, thread_type |-> ty,
     counters |-> [sleep |-> sleep, emulator |-> emulator, gc |-> gc]]

\* thread lists: one scheduler thread, alone or with a second scheduler
\* thread and a thread of another type
MsaccInputs ==
    {{MsaccThread(1, "scheduler", s, e, g)}
        : s \in 0..MaxTime, e \in 0..MaxTime, g \in 0..MaxTime}
    \cup {{MsaccThread(1, "scheduler", s, e, g),
           MsaccThread(2, "scheduler", 1, 0, 1),
           MsaccThread(3, "aux", 2, 1, 0)}
        : s \in 0..MaxTime, e \in 0..MaxTime, g \in 0..MaxTime}

InsertMsaccMetrics(msacc) ==
    /\ schedState = "polling"
    /\ msacc_items = NoItems
    /\ msacc_items' = ItemsOf(InsertMsacc(F64Utilization, msacc))
    /\ UNCHANGED <<now, schedVars, queue, appState, uiVars, flagVars, replayVars>>
    /\ UNCHANGED <<pc, calls, cycleStart, elapsed, slept, fault>>

NextMsacc == \E msacc \in MsaccInputs : InsertMsaccMetrics(msacc)

SpecMsacc == Init /\ [][NextMsacc]_vars

Hundred == F64Times100([bits |-> <<1>>, scale |-> 0])

\* a unit in the last place of the f64 100.0
UlpOfHundred == [bits |-> <<1>>, scale |-> MantissaDigits - Len(Hundred.bits)]

\* x and y differ by two units in the last place of 100.0 at most
Near(x, y) ==
    LET tolerance == XAdd(UlpOfHundred, UlpOfHundred)
    IN  XLe(x, XAdd(y, tolerance)) /\ XLe(y, XAdd(x, tolerance))

\* the thread types whose total time is not zero, by their root entries
MeasuredRoots ==
    {n \in DOMAIN msacc_items :
        msacc_items[n].parent = NoParent /\ ~IsNaN(msacc_items[n].value)}

\* the entries of the states of a root
StateItems(r) ==
    {n \in DOMAIN msacc_items :
        msacc_items[n].parent = r /\ Len(n) = 4 /\ n[3] = ".state."}

SleepItem(r) == r \o <<".state.", "sleep">>

RECURSIVE XSum(_)
\* the real number the values of the entries S add up to
XSum(S) ==
    IF S = {} THEN [bits |-> <<>>, scale |-> 0]
    ELSE LET n == CHOOSE m \in S : TRUE
         IN  XAdd(msacc_items[n].value, XSum(S \ {n}))

\* The original statement of C37: for every thread type with a total time
\* that is not zero the root utilization is within [0, 100], the
\* percentages of its states add up to 100, and the root utilization is 100
\* less the percentage of the sleep state.
C37_UtilizationExact ==
    \A r \in MeasuredRoots :
        /\ XLe(msacc_items[r].value, Hundred)
        /\ XEq(XSum(StateItems(r)), Hundred)
        /\ XEq(XAdd(msacc_items[r].value, msacc_items[SleepItem(r)].value), Hundred)

\* C37: for every thread type with a total time that is not zero the root
\* utilization is within [0, 100], and the percentages of its states add
\* up to 100, and the root utilization with the percentage of the sleep
\* state, to within two units in the last place of 100.0: each is rounded
\* by its f64 division and multiplication.
C37_UtilizationRounded ==
    \A r \in MeasuredRoots :
        /\ XLe(msacc_items[r].value, Hundred)
        /\ Near(XSum(StateItems(r)), Hundred)
        /\ Near(XAdd(msacc_items[r].value, msacc_items[SleepItem(r)].value), Hundred)

\* a thread type whose percentages, each rounded, do not add up to 100
C37_Witness ==
    \E r \in MeasuredRoots :
        /\ ~XEq(XSum(StateItems(r)), Hundred)
        /\ ~XEq(XAdd(msacc_items[r].value, msacc_items[SleepItem(r)].value), Hundred)

\* C38: whenever calc_delta divides, the time between the snapshot and the
\* previous one is strictly positive: the timestamps of the published
\* snapshots strictly increase, and the empty previous snapshot the thread
\* starts with leads to no division, so that the first snapshot has no
\* rate.
C38_PositiveDt ==
    /\ [][(polls' # polls /\ prev_metrics.items # NoItems) =>
            prev_metrics'.timestamp > prev_metrics.timestamp]_vars
    /\ [](\A i \in 1..(Len(Stream) - 1) :
            Stream[i].timestamp < Stream[i + 1].timestamp)
    /\ [][(polls = 0 /\ polls' = 1) =>
            /\ prev_metrics.items = NoItems
            /\ \A n \in DOMAIN prev_metrics'.items :
                  IsCounterOf(prev_metrics', n) =>
                      ~IsSome(prev_metrics'.items[n].value)]_vars

\* a second snapshot published the polling interval after the first, the
\* least there is, with the rate the division gave
C38_Witness ==
    /\ polls = 2
    /\ Len(Stream) = 2
    /\ Stream[2].timestamp - Stream[1].timestamp = Interval
    /\ IsSome(Stream[2].items[RuntimeName].value)

\* C39: replay scrubbing is deterministic: in a replay the chart history and
\* the averages are those rebuilt from the recording for the cursor, the
\* history from range(cursor, cursor + 60 s) and the averages from
\* range(max(0, cursor - 60 s), cursor), so that going forward a second and
\* back again gives the same two; and the averages the screen shows do not
\* change while the cursor stays where it is.
C39_ScrubDeterministic ==
    /\ []((replay_mode /\ appState = "running") =>
            LET v == ReplayView(store, replay_cursor_time)
            IN  /\ history = v.history
                /\ averages = v.averages
                /\ averages =
                     InsertEach(NoItems,
                                get_metrics_range(
                                    store,
                                    Max(0, replay_cursor_time - Secs(CHART_DURATION)),
                                    replay_cursor_time)).averages)
    /\ [][(replay_mode /\ KeyScrubForward
                /\ replay_cursor_time' # replay_cursor_time) =>
            LET back == ReplayView(store,
                                   saturating_sub(replay_cursor_time', Secs(1)))
            IN  /\ back.history = history
                /\ back.averages = averages]_vars
    /\ [][(/\ replay_mode /\ replay_mode'
           /\ appState' = "running"
           /\ replay_cursor_time' = replay_cursor_time) =>
            screen'.avg = screen.avg]_vars

====
